---- MODULE Spec2Model ----
(***************************************************************************)
(* A model of tql.plot_tql (src/tql/tql.py): one quick-look run, from the  *)
(* argument checks to the returned figure or the failure handler.          *)
(*                                                                         *)
(* Conventions                                                             *)
(*   - Python's None is the empty tuple <<>>, a present value v is <<v>>.  *)
(*   - Times, periods and radii are counted in tenths (0.1 day is 1,       *)
(*     1.0 solar radius is 10); a float that may be NaN is a record        *)
(*     [nan, v].                                                           *)
(*   - A string that the code splits is a tuple of one-character strings.  *)
(*   - The external collaborators (chronos, lightkurve, wotan, astropy,    *)
(*     transitleastsquares, deepdish) either raise or return one of a      *)
(*     small set of results; `calls' records every call that was made.     *)
(***************************************************************************)
EXTENDS Integers, Sequences, FiniteSets, TLC

VARIABLES
    pc,            \* the position of the run in plot_tql
    args,          \* the keyword arguments of the call
    Porb_min,      \* local, line 120
    Porb_max,      \* local, line 121
    target_coord,  \* local, lines 129-137
    lctype,        \* local: the argument after defaulting (lines 141, 170)
    l,             \* the loader object (ShortCadence / LongCadence)
    lc,            \* the cleaned light curve (line 241)
    wotan,         \* [wflat, wtrend]: what wotan's flatten returned (line 265)
    flat,          \* the flattened light curve after clipping (lines 280-283)
    trend,         \* the trend after clipping (lines 281-282)
    star,          \* [Rstar, Mstar, window_length] of lines 246-263
    rot,           \* [baseline, Prot_max, best_period] of lines 289-321
    tls_call,      \* the keyword arguments handed to tls(...).power
    tls_results,   \* what the transit search returned
    fold,          \* the phase fold of the flattened series (lines 423-431)
    summary,       \* the summary panel's stellar radius and title (lines 563-641)
    fp,            \* local, line 645: unbound until savefig binds it
    files,         \* the files written by this run
    calls,         \* the collaborator calls made, in order
    log,           \* what the failure handler printed
    exc,           \* the exception in flight or raised, <<>> when none
    result         \* what the caller gets: "pending", "Figure", "None", "raised"

vars == <<pc, args, Porb_min, Porb_max, target_coord, lctype, l, lc, wotan,
          flat, trend, star, rot, tls_call, tls_results, fold, fp, files, calls, log,
          exc, result>>

None == <<>>
Some(v) == <<v>>
IsNone(x) == x = <<>>
Val(x) == x[1]

Num(v) == [nan |-> FALSE, v |-> v]
NaN == [nan |-> TRUE, v |-> 0]

(***************************************************************************)
(* Program constants, in tenths where they are floats.                     *)
(***************************************************************************)
PorbMinFloor == 1            \* 0.1, lines 120 and 375
PorbMaxFloor == 10           \* 1, line 121
DefaultNearbyRadius == 120   \* lines 65 and 492
MaxFrequencyPeriod == 5      \* 1 / maximum_frequency=2.0, line 316
SolarDefault == 10           \* 1.0, lines 249, 254, 263
DefaultWindowLength == 5     \* 0.5, line 54
PorbPlaceholder == 100       \* Porb = 10, line 256
WindowFactor == 3            \* line 260
polyorder == 2               \* line 309

(***************************************************************************)
(* str.split(sep): the fields of s between the occurrences of sep.         *)
(***************************************************************************)
RECURSIVE SplitFrom(_, _, _, _)
SplitFrom(s, sep, i, cur) ==
    IF i > Len(s) THEN <<cur>>
    ELSE IF s[i] = sep THEN <<cur>> \o SplitFrom(s, sep, i + 1, <<>>)
    ELSE SplitFrom(s, sep, i + 1, Append(cur, s[i]))

split(s, sep) == SplitFrom(s, sep, 1, <<>>)

Digits == {"0", "1", "2", "3", "4", "5", "6", "7", "8", "9"}

IsDigits(f) == Len(f) > 0 /\ \A i \in 1..Len(f) : f[i] \in Digits

\* A decimal number: digits, at most one point, a digit somewhere.
IsDecimal(f) ==
    LET parts == split(f, ".")
    IN  /\ Len(parts) \in {1, 2}
        /\ \A k \in 1..Len(parts) : \A i \in 1..Len(parts[k]) : parts[k][i] \in Digits
        /\ \E k \in 1..Len(parts) : Len(parts[k]) > 0

IsSexagesimal(f) ==
    LET parts == split(f, ":")
    IN  /\ Len(parts) = 3
        /\ IsDigits(parts[1]) /\ IsDigits(parts[2]) /\ IsDecimal(parts[3])

(***************************************************************************)
(* astropy's SkyCoord(ra, dec, unit): the angle parser accepts a decimal   *)
(* number or a sexagesimal triple in either unit and raises ValueError on  *)
(* anything else.                                                          *)
(***************************************************************************)
SkyCoordParses(ra, dec) ==
    /\ IsDecimal(ra) \/ IsSexagesimal(ra)
    /\ IsDecimal(dec) \/ IsSexagesimal(dec)

(***************************************************************************)
(* Lines 128-135: which branch decodes coords, from coords[0] alone.       *)
(***************************************************************************)
CoordFormat(coords) ==
    IF Len(split(coords[1], ":")) = 3 THEN "hourangle"
    ELSE IF Len(split(coords[1], ".")) = 2 THEN "degree"
    ELSE "undecodable"

(***************************************************************************)
(* The inputs of a call.                                                   *)
(***************************************************************************)
Cadences == {"long", "short", "weekly"}
LcTypes == {None, Some("custom"), Some("pdcsap"), Some("sap"), Some("cdips"),
            Some("pathos"), Some("qlp")}

RaSexagesimal == <<"1", ":", "2", ":", "3">>
RaDegree == <<"1", ".", "5">>
RaInteger == <<"1", "5">>
RaTwoFields == <<"1", ":", "2">>
RaTwoPoints == <<"1", ".", "2", ".", "3">>
RaWord == <<"x", ".", "y">>
DecDegree == <<"4", ".", "0">>

CoordInputs == {None,
                Some(<<RaSexagesimal, DecDegree>>),
                Some(<<RaDegree, DecDegree>>),
                Some(<<RaInteger, DecDegree>>),
                Some(<<RaTwoFields, DecDegree>>),
                Some(<<RaTwoPoints, DecDegree>>),
                Some(<<RaWord, DecDegree>>),
                Some(<<RaDegree>>)}

\* Porb_limits: None, or a tuple of periods in tenths of a day.
PorbInputs == {None, Some(<<0, 30>>), Some(<<5, 10>>), Some(<<5>>)}

RadiusInputs == {DefaultNearbyRadius, DefaultNearbyRadius \div 2}

ToiInputs == {None, Some("1063")}

\* window_length: the default and another, in tenths of a day.
WindowInputs == {DefaultWindowLength, 2 * DefaultWindowLength}

\* The signature's defaults (lines 37-69), with the target of the tests.
DefaultArgs ==
    [cadence |-> "short", lctype |-> None, coords |-> None,
     Porb_limits |-> None, use_star_priors |-> FALSE, sigma |-> <<10, 3>>,
     window_length |-> DefaultWindowLength,
     savefig |-> FALSE, savetls |-> FALSE, run_gls |-> FALSE,
     nearby_gaia_radius |-> DefaultNearbyRadius, toiid |-> Some("1063")]

ValidModes ==
    {m \in Cadences \X LcTypes :
        /\ m[1] \in {"long", "short"}
        /\ m[2] \in {None} \cup {Some(t) : t \in
               IF m[1] = "long" THEN {"custom", "cdips", "pathos"}
               ELSE {"pdcsap", "sap", "custom"}}}

\* The calls explored.  Arguments that no line of the code reads together
\* are not crossed with each other: the arguments of the entry checks; the
\* light-curve type with the target and the nearby-source radius; the
\* period limits with the stellar priors; the output directives.
EntryArgs ==
    {[DefaultArgs EXCEPT !.cadence = c, !.lctype = t, !.coords = x,
                         !.Porb_limits = p] :
        c \in Cadences, t \in LcTypes, x \in CoordInputs,
        p \in {None, Some(<<5>>)}}

SourceArgs ==
    {[DefaultArgs EXCEPT !.cadence = m[1], !.lctype = m[2],
                         !.nearby_gaia_radius = r, !.toiid = i] :
        m \in ValidModes, r \in RadiusInputs, i \in ToiInputs}

SearchArgs ==
    {[DefaultArgs EXCEPT !.cadence = c, !.Porb_limits = p,
                         !.use_star_priors = u] :
        c \in {"long", "short"}, p \in PorbInputs, u \in BOOLEAN}

OutputArgs ==
    {[DefaultArgs EXCEPT !.cadence = m[1], !.lctype = m[2], !.savefig = f,
                         !.savetls = t, !.run_gls = g] :
        m \in ValidModes, f \in BOOLEAN, t \in BOOLEAN, g \in BOOLEAN}

WindowArgs ==
    {[DefaultArgs EXCEPT !.use_star_priors = u, !.window_length = w] :
        u \in BOOLEAN, w \in WindowInputs}

ArgSpace ==
    EntryArgs \cup SourceArgs \cup SearchArgs \cup OutputArgs \cup WindowArgs

NoLoader == [built |-> FALSE]

Init ==
    /\ pc = "porb_limits"
    /\ args \in ArgSpace
    /\ Porb_min = None /\ Porb_max = None
    /\ target_coord = None
    /\ lctype = args.lctype
    /\ l = NoLoader
    /\ lc = None /\ wotan = None /\ flat = None /\ trend = None
    /\ star = None /\ rot = None
    /\ tls_call = None /\ tls_results = None /\ fold = None
    /\ summary = None
    /\ fp = None
    /\ files = {}
    /\ calls = <<>>
    /\ log = <<>>
    /\ exc = None
    /\ result = "pending"

(***************************************************************************)
(* An exception outside the try block (lines 116-137) reaches the caller   *)
(* as it is; one inside it (lines 138-663) goes to the handler.            *)
(***************************************************************************)
\* A variant in which the error of an argument check is built but not raised.
Propagate_Swallowed(kind, msg) ==
    /\ pc' = "mode"
    /\ exc' = exc
    /\ result' = result

Propagate(kind, msg) ==
    /\ pc' = "done"
    /\ exc' = Some([kind |-> kind, msg |-> msg])
    /\ result' = "raised"

Raise(kind, msg) ==
    /\ pc' = "except"
    /\ exc' = Some([kind |-> kind, msg |-> msg])
    /\ result' = result

Goto(next) ==
    /\ pc' = next
    /\ exc' = exc
    /\ result' = result

(***************************************************************************)
(* Lines 117-123.                                                          *)
(***************************************************************************)
PorbLimitsAssert(limits) == Len(limits) = 2

\* A variant that takes the caller's lower limit as it is.
PorbMinOf_Unfloored(limits) == Some(limits[1])

PorbMinOf(limits) == IF limits[1] > PorbMinFloor THEN Some(limits[1]) ELSE None
PorbMaxOf(limits) == IF limits[2] > PorbMaxFloor THEN Some(limits[2]) ELSE None

ParsePorbLimits ==
    /\ pc = "porb_limits"
    /\ IF IsNone(args.Porb_limits)
       THEN /\ Porb_min' = None /\ Porb_max' = None
            /\ Goto("coords")
       ELSE IF ~PorbLimitsAssert(Val(args.Porb_limits))
       THEN /\ Propagate("AssertionError", "period_min, period_max")
            /\ UNCHANGED <<Porb_min, Porb_max>>
       ELSE /\ Porb_min' = PorbMinOf(Val(args.Porb_limits))
            /\ Porb_max' = PorbMaxOf(Val(args.Porb_limits))
            /\ Goto("coords")
    /\ UNCHANGED <<args, target_coord, lctype, l, lc, wotan, flat, trend, star, rot,
                   tls_call, tls_results, fold, summary, fp, files, calls, log>>

(***************************************************************************)
(* Lines 125-137.                                                          *)
(***************************************************************************)
DecodeCoords ==
    /\ pc = "coords"
    /\ IF IsNone(args.coords)
       THEN /\ target_coord' = None
            /\ Goto("mode")
       ELSE LET coords == Val(args.coords)
            IN  IF Len(coords) # 2
                THEN /\ Propagate("AssertionError", "coords should be a tuple (ra dec)")
                     /\ UNCHANGED target_coord
                ELSE IF CoordFormat(coords) = "undecodable"
                THEN /\ Propagate("ValueError", "cannot decode coord input")
                     /\ UNCHANGED target_coord
                ELSE IF ~SkyCoordParses(coords[1], coords[2])
                THEN /\ Propagate("ValueError", "SkyCoord: cannot parse angle")
                     /\ UNCHANGED target_coord
                ELSE /\ target_coord' = Some([ra |-> coords[1], dec |-> coords[2],
                                              unit |-> CoordFormat(coords)])
                     /\ Goto("mode")
    /\ UNCHANGED <<args, Porb_min, Porb_max, lctype, l, lc, wotan, flat, trend, star,
                   rot, tls_call, tls_results, fold, summary, fp, files, calls, log>>

(***************************************************************************)
(* Lines 139-196: the cadence's defaults and allowed light-curve types,    *)
(* then the loader's construction.                                         *)
(***************************************************************************)
DefaultLcType(cadence) == IF cadence = "long" THEN "custom" ELSE "pdcsap"

\* A variant with one list of types for both cadences.
lctypes_Shared(cadence) == {"custom", "cdips", "pathos", "pdcsap", "sap"}

lctypes(cadence) ==
    IF cadence = "long" THEN {"custom", "cdips", "pathos"}
    ELSE {"pdcsap", "sap", "custom"}

LoaderClass(cadence) == IF cadence = "long" THEN "LongCadence" ELSE "ShortCadence"

\* What the catalog may hold for the star: (rad, mass), each None, NaN or a
\* number of tenths of a solar unit.
TicCatalog == {[rad |-> None, mass |-> Some(Num(8))],
               [rad |-> Some(Num(20)), mass |-> None],
               [rad |-> Some(NaN), mass |-> Some(NaN)]}

\* The object a loader constructor returns; the constructor may already
\* have resolved either catalog.
NewLoader(cadence, gp, tp) ==
    [built |-> TRUE, class |-> LoaderClass(cadence), cadence |-> cadence,
     toiid |-> args.toiid,
     toi_params |-> IF IsNone(args.toiid) THEN None ELSE Some("toi"),
     gaia_params |-> gp, tic_params |-> tp,
     gaia_sources |-> None, contratio |-> None,
     tpf |-> None, tpf_tesscut |-> None, aper_mask |-> None,
     ticid |-> "373308740", sector |-> "1"]

ValidateMode ==
    /\ pc = "mode"
    /\ IF args.cadence \notin {"long", "short"}
       THEN /\ Raise("ValueError", "Use cadence=(long, short).")
            /\ UNCHANGED <<lctype, l, calls>>
       ELSE LET lct == IF IsNone(lctype) THEN DefaultLcType(args.cadence)
                       ELSE Val(lctype)
            IN  /\ lctype' = Some(lct)
                /\ IF lct \notin lctypes(args.cadence)
                   THEN /\ Raise("AssertionError", "lctype is not available in cadence")
                        /\ UNCHANGED <<l, calls>>
                   ELSE /\ calls' = Append(calls, LoaderClass(args.cadence))
                        /\ \/ /\ Raise("CollaboratorError", LoaderClass(args.cadence))
                              /\ UNCHANGED l
                           \/ \E gp \in {None, Some("gaia")},
                                 tp \in {None} \cup {Some(t) : t \in TicCatalog} :
                                 /\ l' = NewLoader(args.cadence, gp, tp)
                                 /\ Goto("gaia")
    /\ UNCHANGED <<args, Porb_min, Porb_max, target_coord, lc, wotan, flat, trend,
                   star, rot, tls_call, tls_results, fold, summary, fp, files, log>>

(***************************************************************************)
(* Lines 199-205: catalog resolution and the cross-match validation.       *)
(***************************************************************************)
\* A variant that queries Gaia whether or not the loader has its parameters.
QueryGaia_Always ==
    /\ pc = "gaia"
    /\ calls' = Append(calls, "query_gaia_dr2_catalog")
    /\ \/ /\ Raise("CollaboratorError", "query_gaia_dr2_catalog")
          /\ UNCHANGED l
       \/ /\ l' = [l EXCEPT !.gaia_params = Some("gaia")]
          /\ Goto("tic")
    /\ UNCHANGED <<args, Porb_min, Porb_max, target_coord, lctype, lc, wotan, flat,
                   trend, star, rot, tls_call, tls_results, fold, summary, fp, files, log>>

QueryGaia ==
    /\ pc = "gaia"
    /\ IF IsNone(l.gaia_params)
       THEN /\ calls' = Append(calls, "query_gaia_dr2_catalog")
            /\ \/ /\ Raise("CollaboratorError", "query_gaia_dr2_catalog")
                  /\ UNCHANGED l
               \/ /\ l' = [l EXCEPT !.gaia_params = Some("gaia")]
                  /\ Goto("tic")
       ELSE /\ Goto("tic")
            /\ UNCHANGED <<l, calls>>
    /\ UNCHANGED <<args, Porb_min, Porb_max, target_coord, lctype, lc, wotan, flat,
                   trend, star, rot, tls_call, tls_results, fold, summary, fp, files, log>>

QueryTic ==
    /\ pc = "tic"
    /\ IF IsNone(l.tic_params)
       THEN /\ calls' = Append(calls, "query_tic_catalog")
            /\ \/ /\ Raise("CollaboratorError", "query_tic_catalog")
                  /\ UNCHANGED l
               \/ \E t \in TicCatalog :
                     /\ l' = [l EXCEPT !.tic_params = Some(t)]
                     /\ Goto("xmatch")
       ELSE /\ Goto("xmatch")
            /\ UNCHANGED <<l, calls>>
    /\ UNCHANGED <<args, Porb_min, Porb_max, target_coord, lctype, lc, wotan, flat,
                   trend, star, rot, tls_call, tls_results, fold, summary, fp, files, log>>

ValidateXmatch ==
    /\ pc = "xmatch"
    /\ calls' = Append(calls, "validate_gaia_tic_xmatch")
    /\ \/ Raise("CollaboratorError", "validate_gaia_tic_xmatch")
       \/ Raise("ValueError", "Gaia TIC cross-match failed")
       \/ Goto("rawlc")
    /\ UNCHANGED <<args, Porb_min, Porb_max, target_coord, lctype, l, lc, wotan, flat,
                   trend, star, rot, tls_call, tls_results, fold, summary, fp, files, log>>

(***************************************************************************)
(* Light curves.  A sample is [t, flux]: t in tenths of a day, flux a      *)
(* float.  The loader's series is sampled every Step tenths of a day; its  *)
(* NaN sample, if it has one, is the second.                               *)
(***************************************************************************)
MaxSamples == 3
Steps == {4, 25}

RawSample(k, step, nanAt) ==
    [t |-> (k - 1) * step, flux |-> IF k = nanAt THEN NaN ELSE Num(100)]

\* An array as a tuple.
Array(f) == SubSeq(f, 1, Len(f))

RawSeries ==
    {Array([k \in 1..n |-> RawSample(k, step, nanAt)]) :
        n \in 0..MaxSamples, step \in Steps, nanAt \in {0, 2}}

Times(samples) == [k \in 1..Len(samples) |-> samples[k].t]
Fluxes(samples) == [k \in 1..Len(samples) |-> samples[k].flux]

\* seq[keep]: numpy's selection by a boolean mask.
RECURSIVE MaskSelect(_, _)
MaskSelect(seq, keep) ==
    IF Len(seq) = 0 THEN <<>>
    ELSE (IF Head(keep) THEN <<Head(seq)>> ELSE <<>>)
         \o MaskSelect(Tail(seq), Tail(keep))

Not(mask) == [k \in 1..Len(mask) |-> ~mask[k]]

\* Line 241: lc.normalize().remove_nans().remove_outliers(sigma=7).
IsFinite(sample) == ~sample.flux.nan

\* A variant that hands the loader's series on as it is.
CleanLc_Raw(raw) == raw

CleanLc(raw) ==
    [samples |-> MaskSelect(raw.samples,
                            [k \in 1..Len(raw.samples) |-> IsFinite(raw.samples[k])]),
     normalized |-> TRUE, finite |-> TRUE, flux_err |-> raw.flux_err]

(***************************************************************************)
(* astropy.stats.sigma_clip(data, sigma_lower, sigma_upper) with its       *)
(* defaults (median centre, standard deviation, at most 5 iterations):     *)
(* the mask of the non-finite values and of the values outside the bounds  *)
(* of the last iteration.  With n kept values of sum S and sum of squares  *)
(* Q, std^2 = (n*Q - S*S) / n^2, so x > median + su*std is                 *)
(* 2x - 2*median > 0 and n^2 (2x - 2*median)^2 > 4 su^2 (n*Q - S*S).      *)
(***************************************************************************)
SigmaClipMaxIters == 5

RECURSIVE Sum(_)
Sum(seq) == IF Len(seq) = 0 THEN 0 ELSE Head(seq) + Sum(Tail(seq))

RECURSIVE Insert(_, _)
Insert(x, sorted) ==
    IF Len(sorted) = 0 THEN <<x>>
    ELSE IF x <= Head(sorted) THEN <<x>> \o sorted
    ELSE <<Head(sorted)>> \o Insert(x, Tail(sorted))

RECURSIVE Sort(_)
Sort(seq) == IF Len(seq) = 0 THEN <<>> ELSE Insert(Head(seq), Sort(Tail(seq)))

\* Twice the median of a non-empty sequence.
Median2(seq) ==
    LET srt == Sort(seq)
        n == Len(seq)
    IN  IF n % 2 = 1 THEN 2 * srt[(n + 1) \div 2]
        ELSE srt[n \div 2] + srt[n \div 2 + 1]

ClipBounds(kept) ==
    [n |-> Len(kept),
     med2 |-> IF Len(kept) = 0 THEN 0 ELSE Median2(kept),
     V |-> Len(kept) * Sum([k \in 1..Len(kept) |-> kept[k] * kept[k]])
           - Sum(kept) * Sum(kept)]

AboveUpper(x, b, su) ==
    /\ b.n > 0
    /\ 2 * x - b.med2 > 0
    /\ b.n * b.n * (2 * x - b.med2) * (2 * x - b.med2) > 4 * su * su * b.V

BelowLower(x, b, sl) ==
    /\ b.n > 0
    /\ b.med2 - 2 * x > 0
    /\ b.n * b.n * (b.med2 - 2 * x) * (b.med2 - 2 * x) > 4 * sl * sl * b.V

Outside(x, b, sl, su) == BelowLower(x, b, sl) \/ AboveUpper(x, b, su)

RECURSIVE ClipIterate(_, _, _, _)
ClipIterate(kept, sl, su, iteration) ==
    LET b == ClipBounds(kept)
        inside(x) == ~Outside(x, b, sl, su)
        next == SelectSeq(kept, inside)
    IN  IF Len(next) = Len(kept) \/ iteration >= SigmaClipMaxIters THEN b
        ELSE ClipIterate(next, sl, su, iteration + 1)

sigma_clip_mask(data, sl, su) ==
    LET finite(x) == ~x.nan
        kept == SelectSeq(data, finite)
        values == [k \in 1..Len(kept) |-> kept[k].v]
        b == ClipIterate(values, sl, su, 1)
    IN  [k \in 1..Len(data) |-> data[k].nan \/ Outside(data[k].v, b, sl, su)]

(***************************************************************************)
(* Lines 276-283: the clip on wotan's flattened flux, applied to the       *)
(* placeholder pair, whose fluxes are then replaced by wotan's.            *)
(***************************************************************************)
\* A variant that hands the clip its two thresholds in the other order.
ClipKeep_Swapped(wflat, sigma) == Not(sigma_clip_mask(wflat, sigma[2], sigma[1]))

ClipKeep(wflat, sigma) == Not(sigma_clip_mask(wflat, sigma[1], sigma[2]))

FlatOf(samples, wflat, sigma) ==
    [time |-> MaskSelect(Times(samples), ClipKeep(wflat, sigma)),
     flux |-> MaskSelect(wflat, ClipKeep(wflat, sigma))]

TrendOf(samples, wflat, wtrend, sigma) ==
    [time |-> MaskSelect(Times(samples), ClipKeep(wflat, sigma)),
     flux |-> MaskSelect(wtrend, ClipKeep(wflat, sigma))]

(***************************************************************************)
(* Lines 208-234: the raw light curve of the chosen type.  make_custom_lc  *)
(* also fetches the pixel cutout and may compute the contamination (line   *)
(* 511), from the nearby sources of the default radius.                    *)
(***************************************************************************)
LoaderCall(lct) ==
    IF lct = "custom" THEN "make_custom_lc"
    ELSE IF lct \in {"pdcsap", "sap"} THEN "get_lc"
    ELSE IF lct = "cdips" THEN "get_cdips_lc"
    ELSE "get_pathos_lc"

CachedContratio ==
    Some([radius |-> DefaultNearbyRadius, by |-> "make_custom_lc"])

AfterRawLc(loader, lct, contam) ==
    IF lct = "custom"
    THEN [loader EXCEPT
            !.tpf = IF loader.cadence = "short" THEN Some("tpf") ELSE @,
            !.tpf_tesscut = IF loader.cadence = "long" THEN Some("tpf") ELSE @,
            !.gaia_sources = IF contam THEN Some(DefaultNearbyRadius) ELSE @,
            !.contratio = IF contam THEN CachedContratio ELSE @,
            !.aper_mask = IF contam THEN Some("sap_mask") ELSE @]
    ELSE IF lct \in {"cdips", "pathos"}
    THEN [loader EXCEPT !.aper_mask = Some(lct)]
    ELSE loader

LoadRawLc ==
    /\ pc = "rawlc"
    /\ LET lct == Val(lctype)
       IN  IF lct \notin {"custom", "pdcsap", "sap", "cdips", "pathos"}
           THEN /\ Raise("ValueError", "use lctype=[custom,sap,pdcsap,cdips,pathos]")
                /\ UNCHANGED <<l, lc, calls>>
           ELSE IF lct \in {"cdips", "pathos"} /\ l.cadence # "long"
           THEN /\ Raise("AssertionError", "only available for cadence=long")
                /\ UNCHANGED <<l, lc, calls>>
           ELSE /\ calls' = Append(calls, LoaderCall(lct))
                /\ \/ /\ Raise("CollaboratorError", LoaderCall(lct))
                      /\ UNCHANGED <<l, lc>>
                   \/ \E raw \in RawSeries, contam \in BOOLEAN :
                         /\ contam => lct = "custom"
                         /\ l' = AfterRawLc(l, lct, contam)
                         /\ lc' = Some([samples |-> raw, normalized |-> FALSE,
                                        finite |-> \A k \in 1..Len(raw) : IsFinite(raw[k]),
                                        flux_err |-> lct # "pathos"])
                         /\ Goto("detrend")
    /\ UNCHANGED <<args, Porb_min, Porb_max, target_coord, lctype, wotan, flat, trend,
                   star, rot, tls_call, tls_results, fold, summary, fp, files, log>>

(***************************************************************************)
(* Lines 241-285: the Trend Remover.                                       *)
(***************************************************************************)
Known(x) == IF IsNone(x) THEN Num(SolarDefault) ELSE Val(x)

\* A variant that takes the catalog's star whatever use_star_priors says.
StarPriors_FlagIgnored(use_star_priors, tic_params, window_length) ==
    [Rstar |-> Known(tic_params.rad), Mstar |-> Known(tic_params.mass),
     window_length |-> [from |-> "caller", factor |-> 1,
                        R_s |-> Known(tic_params.rad),
                        M_s |-> Known(tic_params.mass),
                        P |-> 0, days |-> window_length]]

\* A variant that keeps the caller's window under the stellar priors.
StarPriors_CallerWindow(use_star_priors, tic_params, window_length) ==
    [Rstar |-> IF use_star_priors THEN Known(tic_params.rad) ELSE Num(SolarDefault),
     Mstar |-> IF use_star_priors THEN Known(tic_params.mass) ELSE Num(SolarDefault),
     window_length |-> [from |-> "caller", factor |-> 1,
                        R_s |-> Num(SolarDefault), M_s |-> Num(SolarDefault),
                        P |-> 0, days |-> window_length]]

\* Lines 246-263: the star handed to wotan's t14 and to the transit search.
StarPriors(use_star_priors, tic_params, window_length) ==
    IF use_star_priors
    THEN [Rstar |-> Known(tic_params.rad), Mstar |-> Known(tic_params.mass),
          window_length |-> [from |-> "t14", factor |-> WindowFactor,
                             R_s |-> Known(tic_params.rad),
                             M_s |-> Known(tic_params.mass),
                             P |-> PorbPlaceholder, days |-> 0]]
    ELSE [Rstar |-> Num(SolarDefault), Mstar |-> Num(SolarDefault),
          window_length |-> [from |-> "caller", factor |-> 1,
                             R_s |-> Num(SolarDefault), M_s |-> Num(SolarDefault),
                             P |-> 0, days |-> window_length]]

\* wotan.flatten returns a flux per sample; the samples within edge_cutoff
\* of either end come back as NaN.
WotanOutputs(n) ==
    {Array([k \in 1..n |-> Num(100)]),
     Array([k \in 1..n |-> IF k \in {1, n} THEN NaN ELSE Num(100)])}

\* wotan's trend is the flux over the flattened flux, both in hundredths.
WotanTrend(flux, wflat) ==
    Array([k \in 1..Len(wflat) |->
              IF wflat[k].nan \/ flux[k].nan THEN NaN
              ELSE Num((flux[k].v * 100) \div wflat[k].v)])

\* The values a flattened flux may take when it is left open (SpecClip).
FluxInputs == {Num(90), Num(100), Num(200), NaN}

\* With anyFlux set, wotan's flattened flux is any value per sample.
TrendRemoverOn(anyFlux) ==
    /\ pc = "detrend"
    /\ calls' = calls \o <<"normalize", "remove_nans", "remove_outliers",
                           "lc.flatten", "wotan.flatten", "sigma_clip">>
    /\ \/ /\ Raise("CollaboratorError", "detrend")
          /\ UNCHANGED <<lc, wotan, flat, trend, star>>
       \/ LET clean == CleanLc(Val(lc))
              n == Len(clean.samples)
          IN  \E wflat \in (IF anyFlux THEN [1..n -> FluxInputs]
                              ELSE WotanOutputs(n)) :
                 /\ lc' = Some(clean)
                 /\ star' = Some(StarPriors(args.use_star_priors, Val(l.tic_params),
                                            args.window_length))
                 /\ wotan' = Some([wflat |-> Array(wflat),
                                    wtrend |-> WotanTrend(Fluxes(clean.samples), wflat)])
                 /\ flat' = Some(FlatOf(clean.samples, wflat, args.sigma))
                 /\ trend' = Some(TrendOf(clean.samples, wflat,
                                          WotanTrend(Fluxes(clean.samples), wflat),
                                          args.sigma))
                 /\ Goto("rotation")
    /\ UNCHANGED <<args, Porb_min, Porb_max, target_coord, lctype, l, rot,
                   tls_call, tls_results, fold, summary, fp, files, log>>

TrendRemover == TrendRemoverOn(FALSE)

(***************************************************************************)
(* Lines 288-370: the Lomb-Scargle periodogram of the detrended series,    *)
(* the GLS object and the fold at the rotation period.                     *)
(***************************************************************************)
\* A variant that rounds the time span up to whole days.
Baseline_RoundedUp(time) == (time[Len(time)] - time[1] + 9) \div 10

\* int(time[-1] - time[0]), in days.
Baseline(time) == (time[Len(time)] - time[1]) \div 10

\* baseline / 2, in tenths of a day.
ProtMax(baseline) == baseline * 5

RotationCalls ==
    (IF IsNone(l.toi_params) THEN <<>> ELSE <<"get_transit_mask">>)
    \o <<"lc.flatten", "LombScargle">>

GlsCalls == <<"Gls">> \o (IF args.run_gls THEN <<"gls.plot">> ELSE <<>>)

RotationAnalyzer ==
    /\ pc = "rotation"
    /\ LET time == Times(Val(lc).samples)
       IN  IF Len(time) = 0
           THEN /\ Raise("IndexError", "index -1 is out of bounds")
                /\ UNCHANGED <<rot, calls>>
           ELSE IF ProtMax(Baseline(time)) = 0
           THEN /\ calls' = calls \o RotationCalls
                /\ Raise("ZeroDivisionError", "float division by zero")
                /\ UNCHANGED rot
           ELSE \/ /\ calls' = calls \o RotationCalls
                   /\ Raise("CollaboratorError", "rotation")
                   /\ UNCHANGED rot
                \/ \E best_period \in {MaxFrequencyPeriod, ProtMax(Baseline(time))} :
                      /\ calls' = calls \o RotationCalls \o <<"autopower">>
                                  \o GlsCalls \o <<"ls.model">>
                      /\ rot' = Some([baseline |-> Baseline(time),
                                      Prot_max |-> ProtMax(Baseline(time)),
                                      best_period |-> best_period,
                                      n |-> Len(time),
                                      normalized |-> Val(lc).normalized,
                                      finite |-> Val(lc).finite])
                      /\ Goto("tls")
    /\ UNCHANGED <<args, Porb_min, Porb_max, target_coord, lctype, l, lc, wotan, flat,
                   trend, star, tls_call, tls_results, fold, summary, fp, files, log>>

(***************************************************************************)
(* Lines 374-415: the transit search and the harmonic markers.             *)
(***************************************************************************)
PeriodMin(pmin) == IF IsNone(pmin) THEN PorbMinFloor ELSE Val(pmin)
PeriodMax(pmax, baseline) == IF IsNone(pmax) THEN ProtMax(baseline) ELSE Val(pmax)

\* range(2, 10)
HarmonicOrders == 2..9

\* The markers drawn for best period P: <<"x", i>> is i * P and <<"/", i>>
\* is P / i, each drawn when it lies within [period_min, period_max].
Harmonics(P, period_min, period_max) ==
    {<<"x", i>> : i \in {j \in HarmonicOrders :
                            period_min <= j * P /\ j * P <= period_max}}
    \cup
    {<<"/", i>> : i \in {j \in HarmonicOrders :
                            j * period_min <= P /\ P <= j * period_max}}

TlsCall ==
    [R_star |-> Val(star).Rstar, M_star |-> Val(star).Mstar,
     period_min |-> PeriodMin(Porb_min),
     period_max |-> PeriodMax(Porb_max, Val(rot).baseline),
     time |-> Val(flat).time, flux |-> Val(flat).flux,
     flux_err |-> Val(lctype) # "pathos",
     normalized |-> Val(lc).normalized, finite |-> Val(lc).finite]

TransitSearch ==
    /\ pc = "tls"
    /\ calls' = Append(calls, "tls.power")
    /\ tls_call' = Some(TlsCall)
    /\ \/ /\ Raise("CollaboratorError", "tls.power")
          /\ UNCHANGED tls_results
       \/ /\ TlsCall.period_min <= TlsCall.period_max
          /\ Len(TlsCall.time) > 0
          /\ \E period \in {TlsCall.period_min, TlsCall.period_max} :
                tls_results' = Some([period |-> period,
                                     markers |-> Harmonics(period, TlsCall.period_min,
                                                           TlsCall.period_max)])
          /\ Goto("fold")
    /\ UNCHANGED <<args, Porb_min, Porb_max, target_coord, lctype, l, lc, wotan, flat,
                   trend, star, rot, fold, summary, fp, files, log>>

(***************************************************************************)
(* Lines 417-473: the transit mask, the fold at the orbital period and     *)
(* its odd and even halves.                                                *)
(***************************************************************************)
PhaseFold ==
    /\ pc = "fold"
    /\ calls' = calls \o <<"get_transit_mask", "flat.fold">>
    /\ \/ /\ Raise("CollaboratorError", "fold")
          /\ UNCHANGED fold
       \/ /\ fold' = Some([mask_period |-> Val(tls_results).period,
                           period |-> Val(tls_results).period])
          /\ Goto("tpf")
    /\ UNCHANGED <<args, Porb_min, Porb_max, target_coord, lctype, l, lc, wotan, flat,
                   trend, star, rot, tls_call, tls_results, summary, fp, files, log>>

(***************************************************************************)
(* Lines 476-520: the pixel cutout, the nearby sources and the             *)
(* contamination ratio.                                                    *)
(***************************************************************************)
CutoutCached == IF args.cadence = "short" THEN l.tpf ELSE l.tpf_tesscut
CutoutCall == IF args.cadence = "short" THEN "get_tpf" ELSE "get_tpf_tesscut"

Requery(gaia_sources, radius) ==
    IsNone(gaia_sources) \/ radius # DefaultNearbyRadius

Recompute(contratio) == IsNone(contratio)

SourcesAfter(gaia_sources, radius) ==
    IF Requery(gaia_sources, radius) THEN Some(radius) ELSE gaia_sources

ContratioAfter(contratio, gaia_sources) ==
    IF Recompute(contratio)
    THEN Some([radius |-> Val(gaia_sources), by |-> "plot_tql"])
    ELSE contratio

ContaminationCalls ==
    (IF IsNone(CutoutCached) THEN <<CutoutCall>> ELSE <<>>)
    \o (IF Requery(l.gaia_sources, args.nearby_gaia_radius)
        THEN <<"query_gaia_dr2_catalog(radius)">> ELSE <<>>)
    \o <<"plot_gaia_sources_on_tpf">>
    \o (IF Recompute(l.contratio)
        THEN <<"parse_aperture_mask", "get_fluxes_within_mask">> ELSE <<>>)

Contamination ==
    /\ pc = "tpf"
    /\ \/ /\ calls' = Append(calls, CutoutCall)
          /\ Raise("CollaboratorError", "contamination")
          /\ UNCHANGED l
       \/ /\ calls' = calls \o ContaminationCalls
          /\ l' = [l EXCEPT
                     !.gaia_sources = SourcesAfter(@, args.nearby_gaia_radius),
                     !.contratio = ContratioAfter(@,
                         SourcesAfter(l.gaia_sources, args.nearby_gaia_radius)),
                     !.aper_mask = IF Recompute(l.contratio) THEN Some("sap_mask") ELSE @]
          /\ Goto("report")
    /\ UNCHANGED <<args, Porb_min, Porb_max, target_coord, lctype, lc, wotan, flat,
                   trend, star, rot, tls_call, tls_results, fold, summary, fp, files, log>>

(***************************************************************************)
(* Lines 524-641: the summary panel.  Without a StarHorse entry Mstar is   *)
(* the string "nan", which line 616 formats with :.2f.                     *)
(***************************************************************************)
\* Lines 563-570: the radius shown is the catalog's unless it is None or NaN.
SummaryRadius(tic_params) ==
    IF IsNone(tic_params.rad) \/ Val(tic_params.rad).nan THEN "gaia" ELSE "tic"

Report ==
    /\ pc = "report"
    /\ calls' = Append(calls, "query_vizier")
    /\ \/ /\ Raise("CollaboratorError", "query_vizier")
          /\ UNCHANGED summary
       \/ /\ Raise("ValueError", "Unknown format code 'f' for object of type 'str'")
          /\ UNCHANGED summary
       \/ /\ summary' = Some([Rstar |-> SummaryRadius(Val(l.tic_params)),
                              period |-> Val(tls_results).period,
                              cont_ratio |-> Val(l.contratio)])
          /\ Goto("save")
    /\ UNCHANGED <<args, Porb_min, Porb_max, target_coord, lctype, l, lc, wotan, flat,
                   trend, star, rot, tls_call, tls_results, fold, fp, files, log>>

(***************************************************************************)
(* Lines 642-663: the output files and the returned figure.                *)
(***************************************************************************)
FirstLetter(cadence) == IF cadence = "long" THEN "l" ELSE "s"

\* os.path.join(outdir, f"tic{l.ticid}_s{l.sector}_{lctype}_{cadence[0]}c")
Prefix == <<"outdir/", "tic", l.ticid, "_s", l.sector, "_", Val(lctype), "_",
            FirstLetter(args.cadence), "c">>

ImageFile(prefix) == prefix \o <<".png">>
ContainerFile(prefix) == prefix \o <<"_tls.h5">>

\* fp after lines 644-647.
FpAfterSavefig == IF args.savefig THEN Some(Prefix) ELSE fp

Persist ==
    /\ pc = "save"
    /\ fp' = FpAfterSavefig
    /\ IF args.savefig /\ args.run_gls
       THEN /\ files' = files \cup {ImageFile(Prefix)}
            /\ calls' = Append(calls, "fig.savefig")
            /\ Raise("NotImplementedError", "To be added soon")
       ELSE IF args.savetls /\ IsNone(FpAfterSavefig)
       THEN /\ files' = files
            /\ calls' = calls
            /\ Raise("UnboundLocalError", "local variable 'fp' referenced before assignment")
       ELSE /\ files' = files
                \cup (IF args.savefig THEN {ImageFile(Prefix)} ELSE {})
                \cup (IF args.savetls THEN {ContainerFile(Val(FpAfterSavefig))} ELSE {})
            /\ calls' = calls
                \o (IF args.savefig THEN <<"fig.savefig">> ELSE <<>>)
                \o (IF args.savetls THEN <<"dd.io.save">> ELSE <<>>)
            /\ pc' = "done"
            /\ result' = "Figure"
            /\ exc' = exc
    /\ UNCHANGED <<args, Porb_min, Porb_max, target_coord, lctype, l, lc, wotan, flat,
                   trend, star, rot, tls_call, tls_results, fold, summary, log>>

\* A variant of the handler that prints nothing.
Handler_Silent ==
    /\ pc = "except"
    /\ result' = "None"
    /\ pc' = "done"
    /\ UNCHANGED <<args, Porb_min, Porb_max, target_coord, lctype, l, lc, wotan, flat,
                   trend, star, rot, tls_call, tls_results, fold, summary, fp, files,
                   calls, log, exc>>

(***************************************************************************)
(* Lines 665-677: the handler prints the exception's type and message and  *)
(* the trace; the function then returns None.                              *)
(***************************************************************************)
Handler ==
    /\ pc = "except"
    /\ log' = log \o <<"type", Val(exc).kind, "message", Val(exc).msg>>
    /\ result' = "None"
    /\ pc' = "done"
    /\ UNCHANGED <<args, Porb_min, Porb_max, target_coord, lctype, l, lc, wotan, flat,
                   trend, star, rot, tls_call, tls_results, fold, summary, fp, files, calls, exc>>

Next ==
    \/ ParsePorbLimits
    \/ DecodeCoords
    \/ ValidateMode
    \/ QueryGaia
    \/ QueryTic
    \/ ValidateXmatch
    \/ LoadRawLc
    \/ TrendRemover
    \/ RotationAnalyzer
    \/ TransitSearch
    \/ PhaseFold
    \/ Contamination
    \/ Report
    \/ Persist
    \/ Handler

Spec == Init /\ [][Next]_vars

(***************************************************************************)
(* The Trend Remover on its own: any short series at the detrend stage,    *)
(* any flux from wotan for each of its samples, any of a few sigma pairs.  *)
(***************************************************************************)
SigmaInputs == {<<10, 3>>, <<1, 1>>, <<10, 1>>, <<1, 10>>}


InitClip ==
    /\ pc = "detrend"
    /\ \E sigma \in SigmaInputs : args = [DefaultArgs EXCEPT !.sigma = sigma]
    /\ Porb_min = None /\ Porb_max = None
    /\ target_coord = None
    /\ lctype = Some("pdcsap")
    /\ \E t \in TicCatalog : l = NewLoader("short", Some("gaia"), Some(t))
    /\ \E raw \in RawSeries :
          lc = Some([samples |-> raw, normalized |-> FALSE,
                     finite |-> \A k \in 1..Len(raw) : IsFinite(raw[k]),
                     flux_err |-> TRUE])
    /\ wotan = None /\ flat = None /\ trend = None
    /\ star = None /\ rot = None
    /\ tls_call = None /\ tls_results = None /\ fold = None
    /\ summary = None
    /\ fp = None
    /\ files = {}
    /\ calls = <<"ShortCadence", "validate_gaia_tic_xmatch", "get_lc">>
    /\ log = <<>>
    /\ exc = None
    /\ result = "pending"

TrendRemoverAny == TrendRemoverOn(TRUE)

NextClip == TrendRemoverAny \/ Handler

SpecClip == InitClip /\ [][NextClip]_vars

(***************************************************************************)
(* Properties.                                                             *)
(***************************************************************************)
Diagnostic == <<"type", Val(exc).kind, "message", Val(exc).msg>>

Elems(seq) == {seq[k] : k \in 1..Len(seq)}

ArgumentChecks == {"porb_limits", "coords"}

\* C1: when the given lctype is not among the types allowed for the chosen
\* cadence (long: custom, cdips, pathos; short: pdcsap, sap, custom), no
\* loader is ever constructed and no collaborator is ever called, and the
\* run never returns a figure; when the run gets as far as the mode check it
\* ends in the assertion that names the invalid mode.
C1_InvalidMode ==
    /\ ~IsNone(args.lctype)
    /\ \/ /\ args.cadence = "long"
          /\ Val(args.lctype) \notin {"custom", "cdips", "pathos"}
       \/ /\ args.cadence = "short"
          /\ Val(args.lctype) \notin {"pdcsap", "sap", "custom"}

C1_InvalidModeFailsBeforeAnyFetch ==
    C1_InvalidMode =>
        /\ ~l.built
        /\ calls = <<>>
        /\ files = {}
        /\ result # "Figure"
        /\ pc \in ArgumentChecks \cup {"mode", "except", "done"}
        /\ pc = "except" =>
              Val(exc) = [kind |-> "AssertionError",
                          msg |-> "lctype is not available in cadence"]
        /\ (pc = "done" /\ result = "None") =>
              Val(exc) = [kind |-> "AssertionError",
                          msg |-> "lctype is not available in cadence"]

C1_Witness ==
    /\ pc = "done"
    /\ args.cadence = "short" /\ args.lctype = Some("cdips")
    /\ result = "None"
    /\ Val(exc).kind = "AssertionError"
    /\ ~l.built /\ calls = <<>>

\* C2 (as stated): every failure, of the argument checks as of any later
\* stage, ends with its kind and message logged by the handler.
C2_EveryFailureLogged ==
    (pc = "done" /\ ~IsNone(exc)) =>
        /\ result \in {"None", "raised"}
        /\ log = Diagnostic

\* C2 (amended): a failure inside the try block, from the mode check to the
\* persistence, goes to the handler, which logs its kind and message and
\* makes the run return None, no later stage having run; a failure of the
\* argument checks before the try block reaches the caller as raised, with
\* nothing logged and nothing called; a figure is returned only by a run
\* without a failure.
C2_Step ==
    /\ (IsNone(exc) /\ ~IsNone(exc') /\ pc \notin ArgumentChecks) =>
          /\ pc' = "except"
          /\ result' = "pending"
          /\ log' = <<>>
    /\ (IsNone(exc) /\ ~IsNone(exc') /\ pc \in ArgumentChecks) =>
          /\ pc' = "done"
          /\ result' = "raised"
          /\ log' = <<>>
          /\ calls' = <<>>
          /\ ~l'.built
    /\ pc = "except" =>
          /\ pc' = "done"
          /\ result' = "None"
          /\ log' = Diagnostic
          /\ exc' = exc
          /\ calls' = calls /\ files' = files /\ l' = l
          /\ tls_call' = tls_call /\ summary' = summary
    /\ result' = "Figure" => IsNone(exc')
    /\ pc # "done"

C2_FailuresInsideTryHandled == [][C2_Step]_vars

C2_Witness ==
    /\ pc = "done"
    /\ result = "None"
    /\ Val(exc) = [kind |-> "CollaboratorError", msg |-> "tls.power"]
    /\ log = Diagnostic
    /\ IsNone(fold) /\ IsNone(summary) /\ files = {}

\* C3: when coords is a pair whose first string is neither three
\* ':'-separated numeric fields nor digits '.' digits, no loader is ever
\* constructed, no collaborator is ever called, and the run ends in a
\* ValueError raised while decoding the coordinates (unless the check of
\* Porb_limits before it has already failed).
C3_WellFormed(ra) ==
    \/ /\ Len(split(ra, ":")) = 3
       /\ \A k \in 1..3 : IsDecimal(split(ra, ":")[k])
    \/ /\ Len(split(ra, ".")) = 2
       /\ \A k \in 1..2 : IsDigits(split(ra, ".")[k])

C3_Malformed ==
    /\ ~IsNone(args.coords)
    /\ Len(Val(args.coords)) = 2
    /\ ~C3_WellFormed(Val(args.coords)[1])

C3_PorbLimitsMalformed ==
    /\ ~IsNone(args.Porb_limits)
    /\ Len(Val(args.Porb_limits)) # 2

C3_MalformedCoordsFailBeforeResolution ==
    C3_Malformed =>
        /\ ~l.built
        /\ calls = <<>>
        /\ IsNone(target_coord)
        /\ pc \in ArgumentChecks \cup {"done"}
        /\ pc = "done" =>
              /\ result = "raised"
              /\ \/ C3_PorbLimitsMalformed
                 \/ Val(exc).kind = "ValueError"

C3_Witness ==
    /\ pc = "done"
    /\ args.coords = Some(<<RaTwoFields, DecDegree>>)
    /\ result = "raised"
    /\ Val(exc) = [kind |-> "ValueError", msg |-> "cannot decode coord input"]
    /\ ~l.built /\ calls = <<>>

\* C4: a run of a valid long-cadence mode (lctype custom or cdips) whose
\* stages have all succeeded, up to and including the summary panel,
\* returns the figure.
C4_ValidLongModeReturnsFigure ==
    (/\ pc = "done"
     /\ args.cadence = "long"
     /\ ~IsNone(lctype) /\ Val(lctype) \in {"custom", "cdips"}
     /\ ~IsNone(summary)) =>
        result = "Figure"

\* C5: in a run whose analysis stages have all succeeded, the image is
\* written at <prefix>.png when savefig is set and the container at
\* <prefix>_tls.h5 when savetls is set, with prefix
\* tic<ticid>_s<sector>_<lctype>_<c>c, each flag on its own; with savetls
\* alone the container is written and the figure returned.
C5_Prefix ==
    <<"outdir/", "tic", l.ticid, "_s", l.sector, "_", Val(lctype), "_",
      IF args.cadence = "long" THEN "l" ELSE "s", "c">>

C5_RequestedOutputsWritten ==
    (pc = "done" /\ ~IsNone(summary)) =>
        /\ args.savefig => (C5_Prefix \o <<".png">>) \in files
        /\ args.savetls => (C5_Prefix \o <<"_tls.h5">>) \in files
        /\ (args.savetls /\ ~args.savefig) => result = "Figure"

\* C6: once the contamination stage has run, a contamination ratio that was
\* already present before it belongs to the radius the caller asked for: it
\* was reused, with no new query of the nearby sources, only if that radius
\* is the one it was computed from.
C6_ContaminationFollowsRadius ==
    (/\ "plot_gaia_sources_on_tpf" \in Elems(calls)
     /\ ~IsNone(l.contratio)
     /\ Val(l.contratio).by = "make_custom_lc") =>
        /\ Val(l.contratio).radius = args.nearby_gaia_radius
        /\ "query_gaia_dr2_catalog(radius)" \notin Elems(calls)

\* C7 (as stated): the search gets period_min = a and period_max = b for
\* every Porb_limits = (a, b), and otherwise 0.1 day and half the time span
\* of the series.
C7_Span == LET time == Times(Val(lc).samples) IN time[Len(time)] - time[1]

C7_BoundsAreOverrideOrDefaults ==
    ~IsNone(tls_call) =>
        IF IsNone(args.Porb_limits)
        THEN /\ Val(tls_call).period_min = 1
             /\ 2 * Val(tls_call).period_max = C7_Span
        ELSE /\ Val(tls_call).period_min = Val(args.Porb_limits)[1]
             /\ Val(tls_call).period_max = Val(args.Porb_limits)[2]

\* C7 (amended): period_min is a when Porb_limits = (a, b) is given with
\* a > 0.1 day and 0.1 day otherwise; period_max is b when it is given with
\* b > 1 day and otherwise half of the time span truncated to whole days.
C7_WholeDays == C7_Span \div 10

C7_BoundsAreFlooredOverrideOrDefaults ==
    ~IsNone(tls_call) =>
        /\ Val(tls_call).period_min =
              IF ~IsNone(args.Porb_limits) /\ Val(args.Porb_limits)[1] > 1
              THEN Val(args.Porb_limits)[1] ELSE 1
        /\ Val(tls_call).period_max =
              IF ~IsNone(args.Porb_limits) /\ Val(args.Porb_limits)[2] > 10
              THEN Val(args.Porb_limits)[2] ELSE 5 * C7_WholeDays

C7_Witness ==
    /\ ~IsNone(tls_call)
    /\ args.Porb_limits = Some(<<0, 30>>)
    /\ Val(tls_call).period_min = 1
    /\ Val(tls_call).period_max = 30
    /\ ~IsNone(tls_results)

\* C8 (as stated): the search gets the catalog's radius and mass whenever
\* the catalog holds a finite value, and 1.0 otherwise, whatever
\* use_star_priors is.
C8_KnownOr1(x) == IF IsNone(x) \/ Val(x).nan THEN Num(10) ELSE Val(x)

C8_StarIsCatalogWhenKnown ==
    ~IsNone(tls_call) =>
        /\ Val(tls_call).R_star = C8_KnownOr1(Val(l.tic_params).rad)
        /\ Val(tls_call).M_star = C8_KnownOr1(Val(l.tic_params).mass)

\* C8 (amended): with use_star_priors set the search gets the catalog's
\* radius and mass, each replaced by 1.0 only when it is None (a NaN is
\* passed on as it is); with use_star_priors unset it gets 1.0 and 1.0.
C8_PresentOr1(x) == IF IsNone(x) THEN Num(10) ELSE Val(x)

C8_StarIsCatalogUnderPriors ==
    ~IsNone(tls_call) =>
        IF args.use_star_priors
        THEN /\ Val(tls_call).R_star = C8_PresentOr1(Val(l.tic_params).rad)
             /\ Val(tls_call).M_star = C8_PresentOr1(Val(l.tic_params).mass)
        ELSE /\ Val(tls_call).R_star = Num(10)
             /\ Val(tls_call).M_star = Num(10)

C8_Witness ==
    /\ ~IsNone(tls_call)
    /\ ~args.use_star_priors
    /\ Val(l.tic_params).rad = Some(Num(20))
    /\ Val(tls_call).R_star = Num(10)
    /\ ~IsNone(tls_results)

\* C9: once the rotation stage is over for a cleaned series of a single
\* sample, or of a time span below one day (baseline zero), no best period
\* has been computed and the failure is an insufficient-data error.
C9_Degenerate ==
    LET time == Times(Val(lc).samples)
    IN  /\ Len(time) >= 1
        /\ (time[Len(time)] - time[1]) \div 10 = 0

C9_DegenerateSeriesRejected ==
    (~IsNone(wotan) /\ pc # "rotation" /\ C9_Degenerate) =>
        /\ IsNone(rot)
        /\ ~IsNone(exc)
        /\ Val(exc).kind = "InsufficientDataError"

\* C10: after the Trend Remover, flat and trend have one length, for their
\* times and their fluxes alike, at most the length of the cleaned series;
\* their samples are exactly the samples of the cleaned series that the
\* clip of the flattened flux, sigma[0] below and sigma[1] above, does not
\* flag, with the flattened flux and the trend of those samples; and their
\* times increase strictly.
C10_Flagged == sigma_clip_mask(Val(wotan).wflat, args.sigma[1], args.sigma[2])

C10_RetainedIndices == {k \in 1..Len(Val(lc).samples) : ~C10_Flagged[k]}

C10_Increasing(time) ==
    \A i \in 1..Len(time) : \A j \in 1..Len(time) : i < j => time[i] < time[j]

C10_FlatAndTrendAreTheUnclippedSamples ==
    (~IsNone(flat) /\ ~IsNone(trend)) =>
        LET input == Times(Val(lc).samples)
            f == Val(flat)
            t == Val(trend)
        IN  /\ Len(f.time) = Len(f.flux)
            /\ Len(t.time) = Len(t.flux)
            /\ Len(f.time) = Len(t.time)
            /\ Len(f.time) <= Len(input)
            /\ Len(f.time) = Cardinality(C10_RetainedIndices)
            /\ f.time = t.time
            /\ \A i \in 1..Len(f.time) :
                  \E k \in C10_RetainedIndices :
                     /\ f.time[i] = input[k]
                     /\ f.flux[i] = Val(wotan).wflat[k]
                     /\ t.flux[i] = Val(wotan).wtrend[k]
            /\ C10_Increasing(f.time)
            /\ C10_Increasing(input)

C10_Witness ==
    /\ ~IsNone(flat) /\ ~IsNone(trend)
    /\ args.sigma = <<10, 1>>
    /\ Len(Val(flat).time) > 0
    /\ Len(Val(flat).time) < Len(Val(lc).samples)
    /\ \E k \in 1..Len(Val(lc).samples) : C10_Flagged[k] /\ ~Val(wotan).wflat[k].nan

\* C11: the window length handed to wotan's flatten is, with use_star_priors
\* set, 3 times the transit duration that t14 estimates from the stellar
\* radius and mass in use and the period 10, whatever window_length the
\* caller gave; with use_star_priors unset it is the caller's window_length.
C11_WindowIsPriorsOrCallers ==
    ~IsNone(star) =>
        LET w == Val(star).window_length
        IN  IF args.use_star_priors
            THEN /\ w.from = "t14" /\ w.factor = 3
                 /\ w.R_s = Val(star).Rstar /\ w.M_s = Val(star).Mstar
                 /\ w.P = 100
                 /\ w.days = 0
            ELSE /\ w.from = "caller" /\ w.factor = 1
                 /\ w.days = args.window_length

C11_Witness ==
    /\ ~IsNone(star) /\ ~IsNone(wotan)
    /\ args.use_star_priors
    /\ args.window_length = 10
    /\ Val(star).window_length.from = "t14"
    /\ Val(star).window_length.R_s = Num(20)

\* C12: once the search has returned best period P, the markers drawn are
\* k * P and P / k for k = 2..10, each when it lies within
\* [period_min, period_max], and the transit mask, the fold and the summary
\* all use P itself.
C12_PeriodIsTheCandidate ==
    LET P == Val(tls_results).period
    IN  /\ ~IsNone(fold) => (Val(fold).mask_period = P /\ Val(fold).period = P)
        /\ ~IsNone(summary) => Val(summary).period = P

C12_MarkersAreHarmonics2To10 ==
    ~IsNone(tls_results) =>
        LET P == Val(tls_results).period
            lo == Val(tls_call).period_min
            hi == Val(tls_call).period_max
        IN  /\ Val(tls_results).markers =
                  {<<"x", k>> : k \in {j \in 2..10 : lo <= j * P /\ j * P <= hi}}
                  \cup
                  {<<"/", k>> : k \in {j \in 2..10 : j * lo <= P /\ P <= j * hi}}
            /\ C12_PeriodIsTheCandidate

\* C13 (as stated): the largest period of the rotation periodogram is
\* exactly half the time span of the series, time[last] - time[first].
C13_Span == LET time == Times(Val(lc).samples) IN time[Len(time)] - time[1]

C13_LargestPeriodIsHalfTheSpan ==
    ~IsNone(rot) =>
        /\ 2 * Val(rot).Prot_max = C13_Span
        /\ Val(rot).best_period >= 5
        /\ Val(rot).best_period <= Val(rot).Prot_max

\* C13 (amended): the periodogram runs over the frequencies from
\* 2 / baseline to 2.0, baseline being the time span truncated to whole
\* days, so that the largest period searched is half the truncated span;
\* the rotation period reported, the reciprocal of the frequency of maximal
\* power, lies between 0.5 day and that largest period.
C13_LargestPeriodIsHalfTheWholeDays ==
    ~IsNone(rot) =>
        /\ Val(rot).baseline = C13_Span \div 10
        /\ Val(rot).Prot_max = 5 * (C13_Span \div 10)
        /\ Val(rot).Prot_max > 0
        /\ Val(rot).best_period >= 5
        /\ Val(rot).best_period <= Val(rot).Prot_max

C13_Witness ==
    /\ ~IsNone(rot)
    /\ C13_Span = 25
    /\ Val(rot).Prot_max = 10
    /\ Val(rot).best_period = 10

\* C14: Gaia is queried exactly when the loader has no Gaia parameters and
\* TIC exactly when it has no TIC parameters; the cross-match validation is
\* called with both present; a raw light curve is loaded only after the
\* validation has been called and has not failed; and a run whose
\* validation fails loads none and ends, through the handler, with the
\* cross-match error.
C14_LoaderCalls == {"make_custom_lc", "get_lc", "get_cdips_lc", "get_pathos_lc"}

C14_CrossMatchFailed ==
    /\ ~IsNone(exc)
    /\ Val(exc) = [kind |-> "ValueError", msg |-> "Gaia TIC cross-match failed"]

C14_Index(call) == CHOOSE k \in 1..Len(calls) : calls[k] = call

C14_State ==
    /\ "validate_gaia_tic_xmatch" \in Elems(calls) =>
          /\ ~IsNone(l.gaia_params) /\ ~IsNone(l.tic_params)
          /\ \A q \in {"query_gaia_dr2_catalog", "query_tic_catalog"} :
                q \in Elems(calls) =>
                   C14_Index(q) < C14_Index("validate_gaia_tic_xmatch")
    /\ \A c \in C14_LoaderCalls :
          c \in Elems(calls) =>
             /\ "validate_gaia_tic_xmatch" \in Elems(calls)
             /\ C14_Index("validate_gaia_tic_xmatch") < C14_Index(c)
             /\ ~C14_CrossMatchFailed
    /\ ~IsNone(lc) => (C14_LoaderCalls \cap Elems(calls)) # {}
    /\ C14_CrossMatchFailed =>
          /\ IsNone(lc)
          /\ (C14_LoaderCalls \cap Elems(calls)) = {}
          /\ calls[Len(calls)] = "validate_gaia_tic_xmatch"
          /\ pc \in {"except", "done"}
          /\ pc = "done" => (result = "None" /\ log = Diagnostic)

C14_Step ==
    /\ pc = "gaia" =>
          calls' = IF IsNone(l.gaia_params)
                   THEN Append(calls, "query_gaia_dr2_catalog") ELSE calls
    /\ pc = "tic" =>
          calls' = IF IsNone(l.tic_params)
                   THEN Append(calls, "query_tic_catalog") ELSE calls
    /\ C14_State'

C14_ResolutionPrecedesLoading == [][C14_Step]_vars

C14_Witness ==
    /\ pc = "done"
    /\ C14_CrossMatchFailed
    /\ result = "None"
    /\ IsNone(lc)
    /\ calls = <<"ShortCadence", "query_gaia_dr2_catalog", "query_tic_catalog",
                 "validate_gaia_tic_xmatch">>

\* C15: the series behind the Lomb-Scargle periodogram, the GLS routine and
\* the transit search is the light curve after normalize and remove_nans:
\* these are called before any of the three routines, the series they are
\* given is flagged normalized and finite, and the flux given to the transit
\* search holds no NaN and only times of the cleaned light curve.
C15_Routines == {"LombScargle", "Gls", "tls.power"}

C15_First(call) == CHOOSE k \in 1..Len(calls) : calls[k] = call

C15_OnlyCleanedSeriesAnalysed ==
    /\ \A r \in C15_Routines :
          r \in Elems(calls) =>
             /\ "normalize" \in Elems(calls)
             /\ "remove_nans" \in Elems(calls)
             /\ C15_First("normalize") < C15_First(r)
             /\ C15_First("remove_nans") < C15_First(r)
             /\ Val(lc).normalized
             /\ \A k \in 1..Len(Val(lc).samples) : ~Val(lc).samples[k].flux.nan
    /\ ~IsNone(rot) => (Val(rot).normalized /\ Val(rot).finite)
    /\ ~IsNone(tls_call) =>
          /\ Val(tls_call).normalized /\ Val(tls_call).finite
          /\ \A k \in 1..Len(Val(tls_call).flux) : ~Val(tls_call).flux[k].nan
          /\ Elems(Val(tls_call).time) \subseteq Elems(Times(Val(lc).samples))

C15_Witness ==
    /\ ~IsNone(tls_call) /\ ~IsNone(tls_results)
    /\ Times(Val(lc).samples) = <<0, 50>>
    /\ Val(tls_call).time = <<0, 50>>
    /\ "Gls" \in Elems(calls)

\* C16: a run that has ended without returning the figure has written no
\* image file and no results container, whatever savefig, savetls and
\* run_gls are.
C16_NoFilesWithoutFigure ==
    (pc = "done" /\ result # "Figure") => files = {}

====
